---- MODULE Spec2Model ----
(***************************************************************************)
(* Model of the MediaApp file server (express application): the browse,   *)
(* stream and download handlers, their path check, the listing sort, the  *)
(* range parsing of the stream handler and formatFileSize.                *)
(*                                                                         *)
(* Strings are sequences of one-character strings, so that               *)
(* String.prototype.startsWith, split and parseInt are computed on        *)
(* characters as the JavaScript does.  The directory name "media" is      *)
(* written "m" and its sibling "media-evil" is written "me".              *)
(***************************************************************************)
EXTENDS Integers, Sequences, FiniteSets, TLC

VARIABLES
    MEDIA_ROOT,  \* the configured root directory
    fs,          \* the disk: the kind of every path
    req,         \* the request being handled and the locals of its handler
    res,         \* its response
    touched,     \* the paths the handler has passed to a filesystem call
    handles,     \* the requests whose read stream holds an open descriptor
    alive,       \* the server process is running
    served,      \* the number of requests received
    sizeIn,      \* the argument of formatFileSize
    sizeOut      \* its result

vars == <<MEDIA_ROOT, fs, req, res, touched, handles, alive, served, sizeIn, sizeOut>>

\* ------------------------------------------------------------------ bounds

MaxSegments == 2
MaxRangeLen == 3
MaxRequests == 2
MaxDigits == 6

\* ------------------------------------------------------------------ strings

Str(n, alphabet) == UNION {[1..len -> alphabet] : len \in 0..n}

startsWith(s, p) == Len(p) <= Len(s) /\ SubSeq(s, 1, Len(p)) = p

RECURSIVE splitFrom(_, _, _, _)
\* the pieces of s after the pieces in out, cur being the piece in progress
splitFrom(s, sep, cur, out) ==
    IF s = <<>> THEN Append(out, cur)
    ELSE IF Head(s) = sep THEN splitFrom(Tail(s), sep, <<>>, Append(out, cur))
    ELSE splitFrom(Tail(s), sep, Append(cur, Head(s)), out)

\* String.prototype.split(sep) for a one-character separator
split(s, sep) == splitFrom(s, sep, <<>>, <<>>)

RECURSIVE joinSegs(_, _)
\* Array.prototype.join(sep)
joinSegs(segs, sep) ==
    IF segs = <<>> THEN <<>>
    ELSE IF Len(segs) = 1 THEN Head(segs)
    ELSE Head(segs) \o <<sep>> \o joinSegs(Tail(segs), sep)

Last(s) == s[Len(s)]

Front(s) == SubSeq(s, 1, Len(s) - 1)

\* ------------------------------------------------------------------ path (posix)

DotDot == <<".", ".">>

RECURSIVE normSegs(_, _, _)
\* the segment stack path.normalize keeps: "" and "." are dropped, ".." pops
\* the last segment unless the stack is empty or ends in "..", where it is
\* kept only when the path may climb above its start
normSegs(segs, acc, allowAboveRoot) ==
    IF segs = <<>> THEN acc
    ELSE LET s == Head(segs)
         IN IF s = <<>> \/ s = <<".">>
            THEN normSegs(Tail(segs), acc, allowAboveRoot)
            ELSE IF s = DotDot
            THEN IF acc # <<>> /\ Last(acc) # DotDot
                 THEN normSegs(Tail(segs), Front(acc), allowAboveRoot)
                 ELSE IF allowAboveRoot
                      THEN normSegs(Tail(segs), Append(acc, s), allowAboveRoot)
                      ELSE normSegs(Tail(segs), acc, allowAboveRoot)
            ELSE normSegs(Tail(segs), Append(acc, s), allowAboveRoot)

normalizeString(path, allowAboveRoot) ==
    joinSegs(normSegs(split(path, "/"), <<>>, allowAboveRoot), "/")

isAbsolute(path) == path # <<>> /\ Head(path) = "/"

\* path.normalize
normalize(path) ==
    IF path = <<>> THEN <<".">>
    ELSE LET abs == isAbsolute(path)
             trailing == Last(path) = "/"
             body == normalizeString(path, ~abs)
         IN IF body = <<>>
            THEN (IF abs THEN <<"/">> ELSE IF trailing THEN <<".", "/">> ELSE <<".">>)
            ELSE (IF abs THEN <<"/">> ELSE <<>>) \o body
                 \o (IF trailing THEN <<"/">> ELSE <<>>)

\* path.join(a, b): the non-empty arguments joined by "/" and normalized
join(a, b) ==
    IF a = <<>> /\ b = <<>> THEN <<".">>
    ELSE IF a = <<>> THEN normalize(b)
    ELSE IF b = <<>> THEN normalize(a)
    ELSE normalize(a \o <<"/">> \o b)

\* process.cwd(): the directory the server was started in
Cwd == <<"/", "e">>

\* path.resolve(p): absolute, normalized, without a trailing separator
resolve(p) ==
    LET full == IF isAbsolute(p) THEN p ELSE Cwd \o <<"/">> \o p
    IN <<"/">> \o normalizeString(full, FALSE)

\* path.basename
basename(p) ==
    LET segs == normSegs(split(p, "/"), <<>>, TRUE)
    IN IF segs = <<>> THEN <<>> ELSE Last(segs)

\* the segments of the absolute path p denotes
Segments(p) == normSegs(split(resolve(p), "/"), <<>>, FALSE)

\* p is the directory root or lies below it (segment-wise containment)
InsideRoot(p, root) ==
    LET ps == Segments(p)
        rs == Segments(root)
    IN Len(rs) <= Len(ps) /\ SubSeq(ps, 1, Len(rs)) = rs

\* ------------------------------------------------------------------ configuration

DefaultRoot == <<".", "/", "m">>

AbsoluteRoot == <<"/", "m">>

Roots == {DefaultRoot, AbsoluteRoot}

\* ------------------------------------------------------------------ file system

NameA == <<"A">>
NameB == <<"b">>
NameTxt == <<"a", ".", "t", "x", "t">>
NameMp4 == <<"b", ".", "m", "p", "4">>

MediaDir == <<"/", "m">>
FileA == MediaDir \o <<"/">> \o NameA
FileB == MediaDir \o <<"/">> \o NameB
FileTxt == MediaDir \o <<"/">> \o NameTxt
FileMp4 == MediaDir \o <<"/">> \o NameMp4
\* the sibling of the root whose name starts with the root's name
FileEvil == <<"/", "m", "e">>
CwdMedia == Cwd \o <<"/", "m">>

\* the disk at start-up: kind of every path that exists
InitialDisk ==
    (FileA :> "dir") @@ (FileB :> "dir") @@ (FileTxt :> "file") @@ (FileMp4 :> "file")
    @@ (FileEvil :> "file") @@ (MediaDir :> "dir") @@ (Cwd :> "dir") @@ (CwdMedia :> "dir")
    @@ (<<"/">> :> "dir")

\* the bytes of each file
Content(p) ==
    IF p = FileMp4 THEN <<"b0", "b1", "b2">>
    ELSE IF p = FileTxt THEN <<"t0", "t1">>
    ELSE IF p = FileEvil THEN <<"secret">>
    ELSE <<>>

\* entries another process may remove while the server runs
Volatile == {FileMp4, FileB}

\* itemStats.mtime.toISOString().split('T')[0]; every entry of the disk has this day
mtimeDay(p) == <<"2024-01-01">>

\* a proper ancestor of the path with these segments is a regular file
AncestorIsFile(disk, segs) ==
    \E n \in 1..(Len(segs) - 1) :
        LET anc == <<"/">> \o joinSegs(SubSeq(segs, 1, n), "/")
        IN anc \in DOMAIN disk /\ disk[anc] = "file"

\* what a stat(2) of path p finds: "dir", "file", or the errno
Lookup(disk, p) ==
    LET a == resolve(p)
    IN IF AncestorIsFile(disk, Segments(p)) THEN "ENOTDIR"
       ELSE IF a \notin DOMAIN disk \/ disk[a] = "none" THEN "ENOENT"
       ELSE IF disk[a] = "file" /\ Last(p) = "/" THEN "ENOTDIR"
       ELSE disk[a]

\* the names readdir(2) finds in directory p
ChildNames(disk, p) ==
    {Last(Segments(c)) : c \in {c \in DOMAIN disk :
        /\ disk[c] # "none"
        /\ Segments(c) # <<>>
        /\ Front(Segments(c)) = Segments(p)}}

\* stat.size
SizeOf(p) == Len(Content(resolve(p)))

\* every order in which readdir may return the names
Orders(names) ==
    {f \in [1..Cardinality(names) -> names] : \A i, j \in DOMAIN f : f[i] = f[j] => i = j}

\* ------------------------------------------------------------------ formatFileSize

\* a byte count is written in base k, most significant digit first, no leading zero
k == 1024

sizes == <<"B", "KB", "MB", "GB", "TB">>

IsZero(bytes) == bytes = <<0>>

RECURSIVE TimesSmall(_, _)
\* <<carry out, digits>> of (digits * f) in base k
TimesSmall(digits, f) ==
    IF digits = <<>> THEN <<0, <<>> >>
    ELSE LET rest == TimesSmall(Tail(digits), f)
             v == Head(digits) * f + rest[1]
         IN <<v \div k, <<v % k>> \o rest[2]>>

\* Math.floor(Math.log(bytes) / Math.log(k)); the quotient of the two doubles
\* rounds up to the next integer when the five leading digits are all k - 1
\* (bytes within 2^-50 of a power of k from below)
logIndex(bytes) ==
    IF Len(bytes) >= 5 /\ \A j \in 1..5 : bytes[j] = k - 1
    THEN Len(bytes)
    ELSE Len(bytes) - 1

\* Number.isSafeInteger(bytes): below 2^53 = 8 * k^5, where stat.size is exact
isSafeInteger(bytes) == Len(bytes) < 6 \/ (Len(bytes) = 6 /\ bytes[1] < 8)

\* (bytes / Math.pow(k, i)).toFixed(1), in tenths: the value rounded half up
toFixedTenths(bytes, i) ==
    LET frac == SubSeq(bytes, Len(bytes) - i + 1, Len(bytes))
        whole == IF i >= Len(bytes) THEN 0 ELSE bytes[Len(bytes) - i]
        twenty == TimesSmall(frac, 20)[1]
    IN whole * 10 + ((twenty + 1) \div 2)

\* parseFloat(x.toFixed(1)) + '': a zero decimal is dropped
numberText(tenths) ==
    IF tenths % 10 = 0 THEN <<tenths \div 10>>
    ELSE <<tenths \div 10, ".", tenths % 10>>

formatFileSize(bytes) ==
    IF IsZero(bytes) THEN <<0, " ", "B">>
    ELSE LET i == logIndex(bytes)
         IN numberText(toFixedTenths(bytes, i))
            \o <<" ", IF i + 1 \in DOMAIN sizes THEN sizes[i + 1] ELSE "undefined">>

RECURSIVE ToDigits(_)
\* the base-k digits of a natural number
ToDigits(n) == IF n < k THEN <<n>> ELSE ToDigits(n \div k) \o <<n % k>>

\* ------------------------------------------------------------------ listing

Lower(c) == IF c = "A" THEN "a" ELSE IF c = "B" THEN "b" ELSE c

\* the primary order of the collation: punctuation, digits, letters
CollationOrder == <<".", "-", "0", "1", "2", "4", "a", "b", "e", "m", "p", "t", "x">>

Primary(c) == CHOOSE n \in DOMAIN CollationOrder : CollationOrder[n] = Lower(c)

RECURSIVE comparePrimary(_, _)
comparePrimary(a, b) ==
    IF a = <<>> /\ b = <<>> THEN 0
    ELSE IF a = <<>> THEN -1
    ELSE IF b = <<>> THEN 1
    ELSE IF Primary(Head(a)) < Primary(Head(b)) THEN -1
    ELSE IF Primary(Head(a)) > Primary(Head(b)) THEN 1
    ELSE comparePrimary(Tail(a), Tail(b))

RECURSIVE compareCase(_, _)
\* equal primary keys: the first case difference decides, lower case first
compareCase(a, b) ==
    IF a = <<>> \/ b = <<>> THEN 0
    ELSE IF Head(a) = Head(b) THEN compareCase(Tail(a), Tail(b))
    ELSE IF Lower(Head(a)) = Head(a) THEN -1 ELSE 1

\* String.prototype.localeCompare
localeCompare(a, b) ==
    IF comparePrimary(a, b) # 0 THEN comparePrimary(a, b) ELSE compareCase(a, b)

\* the comparator without its folders-first tests
compareItemsByName(a, b) == localeCompare(a.name, b.name)

\* the comparator of the listing sort
compareItems(a, b) ==
    IF a.type = "folder" /\ b.type # "folder" THEN -1
    ELSE IF a.type # "folder" /\ b.type = "folder" THEN 1
    ELSE localeCompare(a.name, b.name)

RECURSIVE insertItem(_, _)
insertItem(sorted, x) ==
    IF sorted = <<>> THEN <<x>>
    ELSE IF compareItems(x, Last(sorted)) < 0
         THEN Append(insertItem(Front(sorted), x), Last(sorted))
         ELSE Append(sorted, x)

RECURSIVE sortItems(_)
\* Array.prototype.sort with compareItems (a stable sort)
sortItems(items) ==
    IF items = <<>> THEN <<>>
    ELSE insertItem(sortItems(Front(items)), Last(items))

\* the extension mime.lookup reads: the text after the last "." of the name
extname(name) ==
    LET parts == split(name, ".")
    IN IF Len(parts) < 2 THEN <<>> ELSE Last(parts)

\* mime.lookup(name) as <<type, subtype>>, <<>> (false) when the extension is unknown
mimeLookup(name) ==
    LET ext == extname(name)
    IN IF ext = <<"m", "p", "4">> THEN <<"video", "mp4">>
       ELSE IF ext = <<"j", "p", "g">> THEN <<"image", "jpeg">>
       ELSE IF ext = <<"m", "p", "3">> THEN <<"audio", "mpeg">>
       ELSE IF ext = <<"t", "x", "t">> THEN <<"text", "plain">>
       ELSE <<>>

fileTypeOf(name) ==
    LET mimeType == mimeLookup(name)
    IN IF mimeType = <<>> THEN "file"
       ELSE IF mimeType[1] = "video" THEN "video"
       ELSE IF mimeType[1] = "image" THEN "image"
       ELSE IF mimeType[1] = "audio" THEN "audio"
       ELSE "file"

\* path.posix.join('/', requestPath, item)
relativePathOf(requestPath, item) ==
    IF requestPath = <<>> THEN normalize(<<"/", "/">> \o item)
    ELSE normalize(<<"/", "/">> \o requestPath \o <<"/">> \o item)

\* the MediaEntry built for one child from its stat result
entryOf(requestPath, fullPath, item, kind) ==
    IF kind = "dir"
    THEN [name |-> item, type |-> "folder", path |-> relativePathOf(requestPath, item),
          size |-> <<"null">>, modified |-> mtimeDay(join(fullPath, item))]
    ELSE [name |-> item, type |-> fileTypeOf(item), path |-> relativePathOf(requestPath, item),
          size |-> formatFileSize(ToDigits(SizeOf(join(fullPath, item)))),
          modified |-> mtimeDay(join(fullPath, item))]

\* ------------------------------------------------------------------ numbers

\* a JavaScript number: an integer, or NaN
Num(v) == [nan |-> FALSE, v |-> v]

NaN == [nan |-> TRUE, v |-> 0]

minus(a, b) == IF a.nan \/ b.nan THEN NaN ELSE Num(a.v - b.v)

plus(a, b) == IF a.nan \/ b.nan THEN NaN ELSE Num(a.v + b.v)

\* a > b, false when either is NaN
greater(a, b) == ~a.nan /\ ~b.nan /\ a.v > b.v

Digits == <<"0", "1", "2", "3", "4", "5", "6", "7", "8", "9">>

isDigit(c) == \E d \in DOMAIN Digits : Digits[d] = c

digitValue(c) == (CHOOSE d \in DOMAIN Digits : Digits[d] = c) - 1

RECURSIVE parseDigits(_, _)
parseDigits(str, acc) ==
    IF str = <<>> \/ ~isDigit(Head(str)) THEN acc
    ELSE parseDigits(Tail(str), acc * 10 + digitValue(Head(str)))

\* parseInt(str, 10): the leading decimal digits, NaN when there are none
parseInt(str) ==
    IF str = <<>> \/ ~isDigit(Head(str)) THEN NaN ELSE Num(parseDigits(str, 0))

\* ------------------------------------------------------------------ requests and responses

\* req.headers.range when the request carries no Range header
Undefined == <<"undefined">>

NoHeaders ==
    [ContentType |-> <<>>, ContentRange |-> <<>>, AcceptRanges |-> <<>>,
     ContentLength |-> <<>>, ContentDisposition |-> <<>>]

NoRes == [status |-> 0, headers |-> NoHeaders, body |-> <<>>, json |-> <<>>, state |-> "none"]

NoReq ==
    [id |-> 0, endpoint |-> "none", requestPath |-> <<>>, range |-> Undefined,
     pc |-> "idle", fullPath |-> <<>>, stats |-> "none", items |-> <<>>,
     itemsWithStats |-> <<>>, fileSize |-> 0, start |-> Num(0), end |-> Num(0),
     pos |-> 0, isDir |-> FALSE, piped |-> FALSE, failed |-> "none"]

\* res.status(status).json(payload)
jsonRes(status, payload) ==
    [status |-> status, headers |-> [NoHeaders EXCEPT !.ContentType = <<"application", "json">>],
     body |-> <<>>, json |-> payload, state |-> "ended"]

\* the request a handler starts on
newReq(endpoint, p, range, fullPath) ==
    [NoReq EXCEPT !.id = served + 1, !.endpoint = endpoint, !.requestPath = p,
                  !.range = range, !.fullPath = fullPath]

\* the security check of the three handlers
pathAllowed(fullPath, root) == startsWith(fullPath, resolve(root))

\* the error-handling middleware express calls for an error a handler throws
errorMiddleware == jsonRes(500, <<"error", "Internal server error">>)

\* the handler can be entered: the process runs and serves one request at a time here
CanAccept == alive /\ req.pc = "idle" /\ served < MaxRequests

\* ------------------------------------------------------------------ GET /api/browse/*

\* the catch block of the browse handler
browseCatch(code) ==
    IF code = "ENOENT" THEN jsonRes(404, <<"error", "Directory not found">>)
    ELSE jsonRes(500, <<"error", "Server error">>)

\* entry of the handler up to the first await
BrowseRequest(p) ==
    /\ CanAccept
    /\ LET fullPath == join(MEDIA_ROOT, p)
           r == newReq("browse", p, Undefined, fullPath)
       IN IF ~pathAllowed(fullPath, MEDIA_ROOT)
          THEN /\ req' = [r EXCEPT !.pc = "done"]
               /\ res' = jsonRes(403, <<"error", "Access denied">>)
          ELSE /\ req' = [r EXCEPT !.pc = "stat"]
               /\ res' = NoRes
    /\ served' = served + 1
    /\ touched' = {}
    /\ UNCHANGED <<MEDIA_ROOT, fs, handles, alive, sizeIn, sizeOut>>

\* await fs.stat(fullPath) and the isDirectory test
BrowseStat ==
    /\ alive /\ req.endpoint = "browse" /\ req.pc = "stat"
    /\ touched' = touched \cup {req.fullPath}
    /\ \E outcome \in {Lookup(fs, req.fullPath), "EACCES"} :
         IF outcome = "dir"
         THEN /\ req' = [req EXCEPT !.pc = "readdir", !.stats = outcome]
              /\ res' = res
         ELSE IF outcome = "file"
         THEN /\ req' = [req EXCEPT !.pc = "done", !.stats = outcome]
              /\ res' = jsonRes(400, <<"error", "Path is not a directory">>)
         ELSE /\ req' = [req EXCEPT !.pc = "done", !.stats = outcome, !.failed = "stat"]
              /\ res' = browseCatch(outcome)
    /\ UNCHANGED <<MEDIA_ROOT, fs, handles, alive, served, sizeIn, sizeOut>>

\* await fs.readdir(fullPath); the per-child stats are then all issued
BrowseReaddir ==
    /\ alive /\ req.endpoint = "browse" /\ req.pc = "readdir"
    /\ touched' = touched \cup {req.fullPath}
    /\ \E outcome \in {Lookup(fs, req.fullPath), "EACCES"} :
         IF outcome = "dir"
         THEN \E order \in Orders(ChildNames(fs, req.fullPath)) :
                /\ req' = [req EXCEPT !.pc = "childstats", !.items = order,
                                      !.itemsWithStats = [i \in DOMAIN order |-> <<>>]]
                /\ res' = res
         ELSE /\ req' = [req EXCEPT !.pc = "done", !.failed = "readdir"]
              /\ res' = browseCatch(IF outcome = "file" THEN "ENOTDIR" ELSE outcome)
    /\ UNCHANGED <<MEDIA_ROOT, fs, handles, alive, served, sizeIn, sizeOut>>

\* one of the concurrent fs.stat(itemPath) calls completes; a failure rejects
\* Promise.all and reaches the catch block
BrowseChildStat(i) ==
    /\ alive /\ req.endpoint = "browse" /\ req.pc = "childstats"
    /\ i \in DOMAIN req.items /\ req.itemsWithStats[i] = <<>>
    /\ LET itemPath == join(req.fullPath, req.items[i])
       IN /\ touched' = touched \cup {itemPath}
          /\ \E outcome \in {Lookup(fs, itemPath), "EACCES"} :
               IF outcome \in {"dir", "file"}
               THEN /\ req' = [req EXCEPT !.itemsWithStats[i] =
                                  <<entryOf(req.requestPath, req.fullPath, req.items[i], outcome)>>]
                    /\ res' = res
               ELSE /\ req' = [req EXCEPT !.pc = "done", !.failed = "childstat"]
                    /\ res' = browseCatch(outcome)
    /\ UNCHANGED <<MEDIA_ROOT, fs, handles, alive, served, sizeIn, sizeOut>>

\* Promise.all resolved: sort and res.json
BrowseRespond ==
    /\ alive /\ req.endpoint = "browse" /\ req.pc = "childstats"
    /\ \A i \in DOMAIN req.items : req.itemsWithStats[i] # <<>>
    /\ LET list == [i \in DOMAIN req.items |-> req.itemsWithStats[i][1]]
           current == IF req.requestPath = <<>> THEN <<"/">> ELSE req.requestPath
       IN res' = jsonRes(200, <<"listing", current, sortItems(list)>>)
    /\ req' = [req EXCEPT !.pc = "done"]
    /\ UNCHANGED <<MEDIA_ROOT, fs, touched, handles, alive, served, sizeIn, sizeOut>>

\* ------------------------------------------------------------------ GET /api/stream/*

RECURSIVE replaceBytes(_)
\* range.replace(/bytes=/, ""): the first "bytes=" is removed
replaceBytes(range) ==
    IF range = <<>> THEN <<>>
    ELSE IF Head(range) = "bytes=" THEN Tail(range)
    ELSE <<Head(range)>> \o replaceBytes(Tail(range))

rangeParts(range) == split(replaceBytes(range), "-")

rangeStart(range) == parseInt(rangeParts(range)[1])

\* parts[1] ? parseInt(parts[1], 10) : fileSize - 1
rangeEnd(range, fileSize) ==
    LET parts == rangeParts(range)
    IN IF Len(parts) >= 2 /\ parts[2] # <<>> THEN parseInt(parts[2]) ELSE Num(fileSize - 1)

\* the chunk size without the + 1
chunksizeExclusive(start, end) == minus(end, start)

\* const chunksize = (end - start) + 1
chunksizeOf(start, end) == plus(minus(end, start), Num(1))

\* if (range): a header that is present and not the empty string
hasRange(range) == range # Undefined /\ range # <<>>

\* fs.createReadStream throws on options that are not integers 0 <= start <= end
rejectsOptions(start, end) ==
    start.nan \/ end.nan \/ start.v < 0 \/ end.v < 0 \/ start.v > end.v

\* mime.lookup(fullPath) || 'application/octet-stream'
contentTypeOf(fullPath) ==
    IF mimeLookup(basename(fullPath)) = <<>> THEN <<"application", "octet-stream">>
    ELSE mimeLookup(basename(fullPath))

\* the head of the 206 response
rangeHead(start, end, fileSize) ==
    [ContentRange |-> <<start, end, Num(fileSize)>>, AcceptRanges |-> <<"bytes">>,
     ContentLength |-> <<chunksizeOf(start, end)>>]

\* the head of the 200 response
fullHead(fileSize) ==
    [ContentRange |-> <<>>, AcceptRanges |-> <<"bytes">>, ContentLength |-> <<Num(fileSize)>>]

\* res.writeHead(status, head) after res.set('Content-Type', mimeType)
writeHead(status, head, mimeType) ==
    [status |-> status,
     headers |-> [NoHeaders EXCEPT !.ContentType = mimeType,
                                   !.ContentRange = head.ContentRange,
                                   !.AcceptRanges = head.AcceptRanges,
                                   !.ContentLength = head.ContentLength],
     body |-> <<>>, json |-> <<>>, state |-> "streaming"]

\* entry of the handler: the security check and fsSync.existsSync
StreamRequest(p, range) ==
    /\ CanAccept
    /\ LET fullPath == join(MEDIA_ROOT, p)
           r == newReq("stream", p, range, fullPath)
       IN IF ~pathAllowed(fullPath, MEDIA_ROOT)
          THEN /\ req' = [r EXCEPT !.pc = "done"]
               /\ res' = jsonRes(403, <<"error", "Access denied">>)
               /\ touched' = {}
          ELSE IF Lookup(fs, fullPath) \notin {"dir", "file"}
          THEN /\ req' = [r EXCEPT !.pc = "done"]
               /\ res' = jsonRes(404, <<"error", "File not found">>)
               /\ touched' = {fullPath}
          ELSE /\ req' = [r EXCEPT !.pc = "statSync"]
               /\ res' = NoRes
               /\ touched' = {fullPath}
    /\ served' = served + 1
    /\ UNCHANGED <<MEDIA_ROOT, fs, handles, alive, sizeIn, sizeOut>>

\* fsSync.statSync and the rest of the synchronous handler: the range is parsed,
\* the read stream created (its file is opened later) and the head written
StreamStat ==
    /\ alive /\ req.endpoint = "stream" /\ req.pc = "statSync"
    /\ touched' = touched \cup {req.fullPath}
    /\ LET found == Lookup(fs, req.fullPath)
           fileSize == SizeOf(req.fullPath)
           mimeType == contentTypeOf(req.fullPath)
           start == rangeStart(req.range)
           end == rangeEnd(req.range, fileSize)
       IN IF found \notin {"dir", "file"}
          THEN /\ req' = [req EXCEPT !.pc = "done", !.failed = "statSync"]
               /\ res' = errorMiddleware
          ELSE IF hasRange(req.range)
          THEN IF rejectsOptions(start, end)
               THEN /\ req' = [req EXCEPT !.pc = "done", !.fileSize = fileSize,
                                          !.start = start, !.end = end,
                                          !.failed = "createReadStream"]
                    /\ res' = errorMiddleware
               ELSE /\ req' = [req EXCEPT !.pc = "opening", !.fileSize = fileSize,
                                          !.start = start, !.end = end,
                                          !.pos = start.v, !.piped = TRUE]
                    /\ res' = writeHead(206, rangeHead(start, end, fileSize), mimeType)
          ELSE /\ req' = [req EXCEPT !.pc = "opening", !.fileSize = fileSize,
                                     !.start = Num(0), !.end = Num(fileSize - 1),
                                     !.pos = 0, !.piped = TRUE]
               /\ res' = writeHead(200, fullHead(fileSize), mimeType)
    /\ UNCHANGED <<MEDIA_ROOT, fs, handles, alive, served, sizeIn, sizeOut>>

\* an 'error' event of the read stream: no listener is attached, so it is thrown
\* as an uncaught exception and the process exits (its descriptors with it)
unhandledStreamError(r, code) == [r EXCEPT !.pc = "crashed", !.failed = code]

\* the read stream opens its file
StreamOpen ==
    /\ alive /\ req.endpoint = "stream" /\ req.pc = "opening"
    /\ touched' = touched \cup {req.fullPath}
    /\ IF Lookup(fs, req.fullPath) \notin {"dir", "file"}
       THEN /\ alive' = FALSE
            /\ handles' = {}
            /\ req' = unhandledStreamError(req, Lookup(fs, req.fullPath))
            /\ res' = [res EXCEPT !.state = "aborted"]
       ELSE /\ alive' = alive
            /\ handles' = handles \cup {req.id}
            /\ req' = [req EXCEPT !.pc = IF req.piped THEN "reading" ELSE "done",
                                  !.isDir = (Lookup(fs, req.fullPath) = "dir")]
            /\ res' = res
    /\ UNCHANGED <<MEDIA_ROOT, fs, served, sizeIn, sizeOut>>

\* the bytes the stream has still to read: up to end, or to the end of the file
remaining(r) ==
    (IF r.end.v < r.fileSize - 1 THEN r.end.v ELSE r.fileSize - 1) - r.pos + 1

\* one read of the piped stream: n bytes are written to the response
StreamRead(n) ==
    /\ alive /\ req.endpoint = "stream" /\ req.pc = "reading" /\ ~req.isDir
    /\ n \in 1..remaining(req)
    /\ res' = [res EXCEPT !.body =
                 res.body \o SubSeq(Content(resolve(req.fullPath)), req.pos + 1, req.pos + n)]
    /\ req' = [req EXCEPT !.pos = req.pos + n]
    /\ UNCHANGED <<MEDIA_ROOT, fs, touched, handles, alive, served, sizeIn, sizeOut>>

\* the stream has read its window: 'end', the file is closed and the response ended
StreamEnd ==
    /\ alive /\ req.endpoint = "stream" /\ req.pc = "reading" /\ ~req.isDir
    /\ remaining(req) <= 0
    /\ handles' = handles \ {req.id}
    /\ res' = [res EXCEPT !.state = "ended"]
    /\ req' = [req EXCEPT !.pc = "done"]
    /\ UNCHANGED <<MEDIA_ROOT, fs, touched, alive, served, sizeIn, sizeOut>>

\* a read fails (EISDIR on a directory, EIO on a file)
StreamReadError ==
    /\ alive /\ req.endpoint = "stream" /\ req.pc = "reading"
    /\ alive' = FALSE
    /\ handles' = {}
    /\ req' = unhandledStreamError(req, IF req.isDir THEN "EISDIR" ELSE "EIO")
    /\ res' = [res EXCEPT !.state = "aborted"]
    /\ UNCHANGED <<MEDIA_ROOT, fs, touched, served, sizeIn, sizeOut>>

\* the client closes the connection: pipe() unpipes the response and the read
\* stream stops flowing; nothing destroys the read stream
ClientDisconnect ==
    /\ alive /\ req.endpoint = "stream" /\ req.pc \in {"opening", "reading"} /\ req.piped
    /\ res' = [res EXCEPT !.state = "aborted"]
    /\ req' = [req EXCEPT !.piped = FALSE,
                          !.pc = IF req.pc = "reading" THEN "done" ELSE req.pc]
    /\ UNCHANGED <<MEDIA_ROOT, fs, touched, handles, alive, served, sizeIn, sizeOut>>

\* ------------------------------------------------------------------ GET /api/download/*

\* entry of the handler: the security check, fsSync.existsSync and res.download
DownloadRequest(p) ==
    /\ CanAccept
    /\ LET fullPath == join(MEDIA_ROOT, p)
           r == newReq("download", p, Undefined, fullPath)
       IN IF ~pathAllowed(fullPath, MEDIA_ROOT)
          THEN /\ req' = [r EXCEPT !.pc = "done"]
               /\ res' = jsonRes(403, <<"error", "Access denied">>)
               /\ touched' = {}
          ELSE IF Lookup(fs, fullPath) \notin {"dir", "file"}
          THEN /\ req' = [r EXCEPT !.pc = "done"]
               /\ res' = jsonRes(404, <<"error", "File not found">>)
               /\ touched' = {fullPath}
          ELSE /\ req' = [r EXCEPT !.pc = "download"]
               /\ res' = [NoRes EXCEPT !.headers.ContentDisposition = <<basename(fullPath)>>]
               /\ touched' = {fullPath}
    /\ served' = served + 1
    /\ UNCHANGED <<MEDIA_ROOT, fs, handles, alive, sizeIn, sizeOut>>

\* res.download sends the file; a failure reaches the error-handling middleware,
\* a directory falls through to the catch-all route that sends the build's index.html
DownloadSend ==
    /\ alive /\ req.endpoint = "download" /\ req.pc = "download"
    /\ touched' = touched \cup {req.fullPath}
    /\ LET found == Lookup(fs, req.fullPath)
       IN IF found = "file"
          THEN res' = [res EXCEPT !.status = 200, !.state = "ended",
                                  !.headers.ContentType = contentTypeOf(req.fullPath),
                                  !.body = Content(resolve(req.fullPath))]
          ELSE IF found = "dir"
          THEN \E built \in BOOLEAN :
                 res' = IF built
                        THEN [NoRes EXCEPT !.status = 200, !.state = "ended",
                                           !.body = <<"index.html">>]
                        ELSE errorMiddleware
          ELSE res' = errorMiddleware
    /\ req' = [req EXCEPT !.pc = "done"]
    /\ UNCHANGED <<MEDIA_ROOT, fs, handles, alive, served, sizeIn, sizeOut>>

\* ------------------------------------------------------------------ environment

\* the connection of a finished request is closed and its objects are dropped;
\* a read stream that was never destroyed keeps its descriptor
RequestClosed ==
    /\ alive /\ req.pc = "done"
    /\ req' = NoReq
    /\ res' = NoRes
    /\ touched' = {}
    /\ UNCHANGED <<MEDIA_ROOT, fs, handles, alive, served, sizeIn, sizeOut>>

\* another process removes an entry of the media directory
Unlink(f) ==
    /\ alive /\ f \in Volatile /\ fs[f] # "none"
    /\ fs' = [fs EXCEPT ![f] = "none"]
    /\ UNCHANGED <<MEDIA_ROOT, req, res, touched, handles, alive, served, sizeIn, sizeOut>>

\* ------------------------------------------------------------------ specifications

InitServer ==
    /\ MEDIA_ROOT \in Roots
    /\ fs = InitialDisk
    /\ req = NoReq
    /\ res = NoRes
    /\ touched = {}
    /\ handles = {}
    /\ alive = TRUE
    /\ served = 0
    /\ sizeIn = <<0>>
    /\ sizeOut = <<>>

\* the steps of the handlers after their entry, and the environment
Steps ==
    \/ BrowseStat
    \/ BrowseReaddir
    \/ \E i \in 1..Len(req.items) : BrowseChildStat(i)
    \/ BrowseRespond
    \/ StreamStat
    \/ StreamOpen
    \/ \E n \in 1..Len(Content(FileMp4)) : StreamRead(n)
    \/ StreamEnd
    \/ StreamReadError
    \/ ClientDisconnect
    \/ DownloadSend
    \/ RequestClosed
    \/ \E f \in Volatile : Unlink(f)

\* request paths of the path check: up to MaxSegments segments joined by "/";
\* a segment is empty, ".", "..", the root's own name "m", the sibling "me"
\* or a file of the root
PathSegments == {<<>>, <<".">>, DotDot, <<"m">>, <<"m", "e">>, NameMp4}

PathInputs == {joinSegs(segs, "/") : segs \in Str(MaxSegments, PathSegments)}

NextPath ==
    \/ \E p \in PathInputs : BrowseRequest(p)
    \/ \E p \in PathInputs : StreamRequest(p, Undefined)
    \/ \E p \in PathInputs : DownloadRequest(p)
    \/ Steps

SpecPath == InitServer /\ [][NextPath]_vars

\* request paths of the served tree: the root, the three children and a missing name
ServeInputs == {<<>>, NameA, NameTxt, NameMp4, <<"x">>}

StreamInputs == {<<>>, NameMp4, <<"x">>}

RangeChars == {"0", "1", "2", "-"}

\* Range headers: none, the empty string, "bytes=" followed by up to MaxRangeLen
\* characters, and two that are not numbers
RangeInputs ==
    {Undefined, <<>>, <<"bytes=", "x">>, <<"bytes=", "x", "-", "1">>, <<"bytes=", "0", "-", "x">>}
    \cup {<<"bytes=">> \o t : t \in Str(MaxRangeLen, RangeChars)}

Next ==
    \/ \E p \in ServeInputs : BrowseRequest(p)
    \/ \E p \in StreamInputs, range \in RangeInputs : StreamRequest(p, range)
    \/ \E p \in ServeInputs : DownloadRequest(p)
    \/ Steps

Spec == InitServer /\ [][Next]_vars

\* the stream handler alone, with no Range header, an open-ended and a closed range
SeekInputs == {Undefined, <<"bytes=", "0", "-">>, <<"bytes=", "1", "-", "2">>}

NextStream ==
    \/ \E p \in StreamInputs, range \in SeekInputs : StreamRequest(p, range)
    \/ StreamStat
    \/ StreamOpen
    \/ \E n \in 1..Len(Content(FileMp4)) : StreamRead(n)
    \/ StreamEnd
    \/ StreamReadError
    \/ ClientDisconnect
    \/ RequestClosed
    \/ \E f \in Volatile : Unlink(f)

\* the disk completes the reads of an open stream, and a finished request is closed
FairSpec ==
    /\ InitServer
    /\ [][NextStream]_vars
    /\ WF_vars(\E n \in 1..Len(Content(FileMp4)) : StreamRead(n))
    /\ WF_vars(StreamEnd)
    /\ WF_vars(RequestClosed)

\* ------------------------------------------------------------------ formatFileSize alone

SizeDigits == {0, 1, 51, 52, 512, k - 1}

\* byte counts of up to MaxDigits base-k digits that a double holds exactly
SizeInputs ==
    {d \in Str(MaxDigits, SizeDigits) :
        /\ d # <<>>
        /\ (d[1] = 0 => Len(d) = 1)
        /\ isSafeInteger(d)}

InitSize ==
    /\ MEDIA_ROOT = AbsoluteRoot
    /\ fs = InitialDisk
    /\ req = NoReq
    /\ res = NoRes
    /\ touched = {}
    /\ handles = {}
    /\ alive = TRUE
    /\ served = 0
    /\ sizeIn \in SizeInputs
    /\ sizeOut = <<>>

\* const size = formatFileSize(itemStats.size)
FormatSize ==
    /\ sizeOut = <<>>
    /\ sizeOut' = formatFileSize(sizeIn)
    /\ UNCHANGED <<MEDIA_ROOT, fs, req, res, touched, handles, alive, served, sizeIn>>

NextSize == FormatSize

SpecSize == InitSize /\ [][NextSize]_vars

\* ------------------------------------------------------------------ claims

\* the handler has run its security check on the current request
Checked == req.pc # "idle"

\* the check let the current request through
Accepted == Checked /\ res.status # 403

\* C1: no path the security check of browse, stream or download accepts lies
\* outside the configured root: an accepted fullPath is the root or below it.
C1_AcceptedInsideRoot == Accepted => InsideRoot(req.fullPath, MEDIA_ROOT)

\* C2: a request whose path resolves outside the root is answered 403, and no
\* filesystem operation of a handler is applied to a path outside the root.
C2_NothingOutsideTouched ==
    /\ \A t \in touched : InsideRoot(t, MEDIA_ROOT)
    /\ (Checked /\ ~InsideRoot(req.fullPath, MEDIA_ROOT)) => res.status = 403

\* C3: the request paths "" and "/" pass the security check and resolve to the
\* root itself, for every configured root, the default "./media" included.
C3_RootResolves ==
    (Checked /\ req.requestPath \in {<<>>, <<"/">>})
        => /\ res.status # 403
           /\ resolve(req.fullPath) = resolve(MEDIA_ROOT)

\* the listing a browse request answered with
Listed == req.endpoint = "browse" /\ res.status = 200

listing == res.json[3]

listedNames == [i \in DOMAIN listing |-> listing[i].name]

\* C4: every listing has all folders before all other entries, each group in
\* alphabetical (localeCompare) order of the names, holds exactly the names the
\* directory enumeration returned, and so is the same whatever order the
\* enumeration and the per-child stat calls completed in; the directory
\* {b.mp4, A/, a.txt} lists as A, a.txt, b.mp4, and with the folder b/ as
\* A, b, a.txt, b.mp4.
C4_ListingSorted ==
    Listed =>
        /\ Len(listing) = Len(req.items)
        /\ {listing[i].name : i \in DOMAIN listing} = {req.items[i] : i \in DOMAIN req.items}
        /\ \A i, j \in DOMAIN listing :
             i < j =>
               /\ ~(listing[i].type # "folder" /\ listing[j].type = "folder")
               /\ ((listing[i].type = "folder") = (listing[j].type = "folder"))
                    => localeCompare(listing[i].name, listing[j].name) < 0
        /\ {req.items[i] : i \in DOMAIN req.items} = {NameA, NameB, NameTxt, NameMp4}
             => listedNames = <<NameA, NameB, NameTxt, NameMp4>>
        /\ {req.items[i] : i \in DOMAIN req.items} = {NameA, NameTxt, NameMp4}
             => listedNames = <<NameA, NameTxt, NameMp4>>

\* C4 witness: the children b.mp4, A and a.txt were enumerated in this order
\* and are listed.
C4_Witness ==
    /\ Listed
    /\ req.items = <<NameMp4, NameA, NameTxt>>

\* the header is "bytes=<start>-<end>" with decimal numbers, <end> optional
IsDecimal(str) == str # <<>> /\ \A i \in DOMAIN str : isDigit(str[i])

WellFormedRange(range) ==
    /\ range # Undefined
    /\ range # <<>>
    /\ Head(range) = "bytes="
    /\ LET parts == split(Tail(range), "-")
       IN /\ Len(parts) = 2
          /\ IsDecimal(parts[1])
          /\ parts[2] = <<>> \/ IsDecimal(parts[2])

headerStart(range) == parseDigits(split(Tail(range), "-")[1], 0)

headerEnd(range, size) ==
    LET e == split(Tail(range), "-")[2]
    IN IF e = <<>> THEN size - 1 ELSE parseDigits(e, 0)

\* the stream handler found the file and ran past its statSync
StreamStatted ==
    /\ req.endpoint = "stream"
    /\ req.pc \in {"opening", "reading", "done", "crashed"}
    /\ res.status \notin {403, 404}
    /\ req.failed # "statSync"
    /\ Lookup(InitialDisk, req.fullPath) = "file"

C6_ListingStatus ==
    (req.endpoint = "browse" /\ req.pc = "done" /\ res.status # 403)
        => /\ (res.status = 404) = (req.stats = "ENOENT")
           /\ (res.status = 400) = (req.stats = "file")
           /\ res.status \in {200, 400, 404, 500}

\* the five units of formatFileSize
Units == {"B", "KB", "MB", "GB", "TB"}

\* C7: for every byte count the rendering ends in one of the five units
\* B, KB, MB, GB, TB.
C7_UnitIsListed == sizeOut # <<>> => sizeOut[Len(sizeOut)] \in Units

\* C7, the rendering as a whole: formatFileSize(0) is "0 B"; any other count is
\* a number with exactly one decimal place, a space and one of the five units,
\* the unit being the largest whose scaled value is at least 1.
C7_OneDecimalAndUnit ==
    sizeOut # <<>> =>
        IF IsZero(sizeIn) THEN sizeOut = <<0, " ", "B">>
        ELSE /\ Len(sizeOut) = 5
             /\ sizeOut[2] = "."
             /\ sizeOut[4] = " "
             /\ sizeOut[5] \in Units
             /\ Len(sizeIn) <= Len(sizes) => sizeOut[5] = sizes[Len(sizeIn)]
             /\ sizeOut[1] * 10 + sizeOut[3] = toFixedTenths(sizeIn, Len(sizeIn) - 1)

\* C8: a stream request for an existing file of size S whose Range header has
\* no numeric start, or start > end, or start >= S, is answered 400 or 416
\* (never 206, never 500).
C8_InvalidRangeRejected ==
    (/\ StreamStatted
     /\ hasRange(req.range)
     /\ \/ rangeStart(req.range).nan
        \/ greater(rangeStart(req.range), rangeEnd(req.range, SizeOf(req.fullPath)))
        \/ ~greater(Num(SizeOf(req.fullPath)), rangeStart(req.range)))
    => res.status \in {400, 416}

\* C9: the file handle of a stream request whose transfer is under way is
\* eventually released, whether the transfer completes, fails or the client
\* disconnects.
C9_HandleReleased ==
    \A id \in 1..MaxRequests :
        (id \in handles /\ req.id = id /\ req.pc = "reading") ~> (id \notin handles)

\* C10: no filesystem failure during a request terminates the server process.
C10_ProcessSurvives == alive

====
